---- MODULE Spec2Model ----
(***************************************************************************)
(* Model of offset_manager.go: the offset manager registry (offsetManager), *)
(* the per-partition manager (partitionOffsetManager) and the per-broker    *)
(* manager (brokerOffsetManager), with one process per goroutine.           *)
(*                                                                         *)
(* Steps that touch only the locals of one goroutine (pom.broker, the      *)
(* locals of selectBroker, the range iterators) are taken together with    *)
(* the step before them; every access to shared state (the registry under  *)
(* om.lock, the channels, offset and metadata under pom.lock) is a step of  *)
(* its own.                                                                 *)
(***************************************************************************)
EXTENDS Integers, Sequences, FiniteSets

\* ---------------------------------------------------------------- bounds
MaxPoms == 2           \* ManagePartition calls made in one behaviour
MaxBoms == 3           \* brokerOffsetManager instances built in one behaviour
NumBrokers == 1        \* distinct *Broker handles the client can return
ChannelBufferSize == 1 \* conf.ChannelBufferSize, capacity of pom.errors
\* what the environment does in one behaviour is drawn from one budget: a
\* ManagePartition call, a SetOffset/SetMetadata call and a failed coordinator
\* resolution cost one unit each, a timer tick costs two
MaxBudget == 5

PomIds == 1..MaxPoms
BomIds == 1..MaxBoms
Brokers == 1..NumBrokers
Topics == {"orders"}
Partitions == {0, 1}
Keys == Topics \X Partitions

\* nil pointers
NoPom == 0
NoBom == 0
NoBroker == 0
NoKey == <<"", -1>>

\* ---------------------------------------------------------------- values
ErrNoError == "ErrNoError"
ErrUnknownTopicOrPartition == "ErrUnknownTopicOrPartition"
ErrNotLeaderForPartition == "ErrNotLeaderForPartition"
ErrLeaderNotAvailable == "ErrLeaderNotAvailable"
ErrOffsetMetadataTooLarge == "ErrOffsetMetadataTooLarge"
ErrIncompleteResponse == "ErrIncompleteResponse"
ErrClosedClient == "ErrClosedClient"
ErrOutOfBrokers == "ErrOutOfBrokers"
ErrNotConnected == "ErrNotConnected"
ConfigurationError == "ConfigurationError"
NilErr == "nil"

\* KError codes a response can carry
KErrors == {ErrNoError, ErrUnknownTopicOrPartition, ErrNotLeaderForPartition,
            ErrLeaderNotAvailable, ErrOffsetMetadataTooLarge}

\* values the caller passes to SetOffset and SetMetadata
SetOffsets == {7}
SetMetadatas == {"x"}

NoBlock == [present |-> FALSE, Err |-> NilErr, Offset |-> 0, Metadata |-> ""]
\* blocks an OffsetFetchResponse can hold for the requested partition
FetchBlocks ==
  { [present |-> TRUE, Err |-> ErrNoError, Offset |-> 42, Metadata |-> "m"],
    [present |-> TRUE, Err |-> ErrOffsetMetadataTooLarge, Offset |-> -1, Metadata |-> ""] }

NoTopic == "no topic entry"
NoPartition == "no partition entry"
\* OffsetCommitResponse.Errors: per topic, absent or a map partition -> code
TopicErrors ==
  {[present |-> TRUE, errs |-> e] : e \in [Partitions -> {NoPartition} \cup KErrors]}
    \cup {[present |-> FALSE, errs |-> [n \in Partitions |-> NoPartition]]}
Responses == [Topics -> TopicErrors]
\* the *OffsetCommitResponse a flush holds: nil, or one with its Errors
NilResponse ==
  [nil |-> TRUE,
   Errors |-> [t \in Topics |-> [present |-> FALSE, errs |-> [n \in Partitions |-> NoPartition]]]]

NoBlockReq == [present |-> FALSE, offset |-> 0, metadata |-> ""]
EmptyRequest == [k \in Keys |-> NoBlockReq]

\* the codes that mean the coordinator has moved
Moved == {ErrUnknownTopicOrPartition, ErrNotLeaderForPartition, ErrLeaderNotAvailable}

\* the record kept while flushToBroker ranges over the subscriptions: the
\* kind of entry the response holds for each subscription the range started
\* with, and the subscriptions the loop body has called handleError for and
\* sent a rebalance signal to
NotSubscribed == "not subscribed"
EntryKind(e) ==
  IF e = ErrNoError THEN "none" ELSE IF e \in Moved THEN "moved" ELSE "other"
NoLog == [entry |-> [p \in PomIds |-> NotSubscribed], reported |-> {}, signalled |-> {}]

VARIABLES
  \* client and registry (offsetManager)
  clientClosed,   \* client.Closed()
  om,             \* result of NewOffsetManagerFromClient: "none", "ok", ErrClosedClient
  ReturnErrors,   \* conf.Consumer.Return.Errors
  poms,           \* om.poms: key -> partitionOffsetManager or NoPom
  boms,           \* om.boms: broker -> brokerOffsetManager or NoBom
  \* partitionOffsetManager, one per ManagePartition call
  pomKey,         \* topic, partition
  pc,             \* position of the goroutine running selectBroker / mainLoop
  ret,            \* the ManagePartition call that built the pom: "none",
                  \* "running", "registering", "ok" or the error returned
  pomBroker,      \* pom.broker
  target,         \* local `broker` of selectBroker
  perr,           \* local `err` of mainLoop
  offset, metadata,
  errors,         \* pom.errors (buffered channel)
  rebalance,      \* pom.rebalance (buffered channel of capacity 1): items held
  block,          \* block of the fetch response read by fetchInitialOffset
  wasManaged,     \* the pair was registered when ManagePartition was called
  closeCalled,    \* Close() or AsyncClose() has been called on the handle
  \* brokerOffsetManager
  bomBroker,      \* bom.broker
  bpc,            \* position of the goroutine running bom.mainLoop
  subscriptions,  \* bom.subscriptions
  refs,           \* bom.refs
  chanClosed,     \* bom.newSubscriptions has been closed
  timerStopped,   \* bom.timer.Stop() was called
  connClosed,     \* bom.broker.Close() was called by this bom
  request,        \* request built by constructRequest, until it is sent
  response,       \* response of CommitOffset: the entries still to be read
  todo,           \* entries the running range loop has not visited
  cur, curErr,    \* partition and error the loop body is working on
  ctx,            \* loop the body belongs to
  drained,        \* partitions abort has received from newSubscriptions
  informed,       \* partitions abort has called handleError for
  reached,        \* partitions abort has sent a rebalance signal to
  evalLog,        \* what the range loop of the running flush has done so far
  budget          \* what is left of MaxBudget

pomVars == <<pomKey, pc, ret, pomBroker, target, perr, offset, metadata,
             errors, rebalance, block, wasManaged, closeCalled>>
bomVars == <<bomBroker, bpc, subscriptions, refs, chanClosed, timerStopped,
             connClosed, request, response, todo, cur, curErr, ctx,
             drained, informed, reached, evalLog>>
omVars == <<clientClosed, om, ReturnErrors, poms, boms>>
vars == <<omVars, pomVars, bomVars, budget>>

Init ==
  /\ clientClosed = FALSE
  /\ om = "none"
  /\ ReturnErrors \in BOOLEAN
  /\ poms = [k \in Keys |-> NoPom]
  /\ boms = [br \in Brokers |-> NoBom]
  /\ pomKey = [p \in PomIds |-> NoKey]
  /\ pc = [p \in PomIds |-> "unborn"]
  /\ ret = [p \in PomIds |-> "none"]
  /\ pomBroker = [p \in PomIds |-> NoBom]
  /\ target = [p \in PomIds |-> NoBroker]
  /\ perr = [p \in PomIds |-> NilErr]
  /\ offset = [p \in PomIds |-> 0]
  /\ metadata = [p \in PomIds |-> ""]
  /\ errors = [p \in PomIds |-> <<>>]
  /\ rebalance = [p \in PomIds |-> 0]
  /\ block = [p \in PomIds |-> NoBlock]
  /\ wasManaged = [p \in PomIds |-> FALSE]
  /\ closeCalled = [p \in PomIds |-> FALSE]
  /\ bomBroker = [b \in BomIds |-> NoBroker]
  /\ bpc = [b \in BomIds |-> "unused"]
  /\ subscriptions = [b \in BomIds |-> {}]
  /\ refs = [b \in BomIds |-> 0]
  /\ chanClosed = [b \in BomIds |-> FALSE]
  /\ timerStopped = [b \in BomIds |-> FALSE]
  /\ connClosed = [b \in BomIds |-> FALSE]
  /\ request = [b \in BomIds |-> EmptyRequest]
  /\ response = [b \in BomIds |-> NilResponse]
  /\ todo = [b \in BomIds |-> {}]
  /\ cur = [b \in BomIds |-> NoPom]
  /\ curErr = [b \in BomIds |-> NilErr]
  /\ ctx = [b \in BomIds |-> "none"]
  /\ drained = [b \in BomIds |-> {}]
  /\ informed = [b \in BomIds |-> {}]
  /\ reached = [b \in BomIds |-> {}]
  /\ evalLog = [b \in BomIds |-> NoLog]
  /\ budget = MaxBudget

\* ------------------------------------------------------------- helpers
\* ids are handed out in order
NextPom == CHOOSE p \in PomIds : pc[p] = "unborn" /\ \A q \in PomIds : pc[q] = "unborn" => p <= q
FreeBoms == {b \in BomIds : bpc[b] = "unused"}
NextBom == CHOOSE b \in FreeBoms : \A c \in FreeBoms : b <= c

\* the partition managers blocked in `pom.broker.newSubscriptions <- pom`
Pending(b) == {p \in PomIds : pc[p] = "sb_send" /\ pomBroker[p] = b}

\* where the goroutine goes when selectBroker returns nil: the caller of
\* newPartitionOffsetManager goes on to fetchInitialOffset, mainLoop goes
\* back to its range over pom.rebalance
AfterSelect(p) == IF ret[p] = "running" THEN "fetch" ELSE "idle"

\* handleError: `pom.errors <- err` when errors are surfaced, a log line
\* otherwise; the send blocks while the buffer is full
CanHandleError(p) == ReturnErrors => Len(errors[p]) < ChannelBufferSize
handleError(p, err) ==
  IF ReturnErrors THEN [errors EXCEPT ![p] = Append(@, err)] ELSE errors

\* ------------------------------------------------- client (collaborator)
\* a closed client answers every call with ErrClosedClient and does nothing
RefreshCoordinator == IF clientClosed THEN {ErrClosedClient} ELSE {NilErr, ErrOutOfBrokers}
Coordinator ==
  IF clientClosed THEN {<<NoBroker, ErrClosedClient>>}
  ELSE {<<br, NilErr>> : br \in Brokers} \cup {<<NoBroker, ErrOutOfBrokers>>}

\* a resolution failure of a live client is drawn from the budget
Charged(err) == err = ErrOutOfBrokers
MayFail(err, left) == Charged(err) => left >= 1
Charge(err, left) == IF Charged(err) THEN left - 1 ELSE left

\* the client is closed before the first ManagePartition call or not at all
CloseClient ==
  /\ ~clientClosed
  /\ \A p \in PomIds : pc[p] = "unborn"
  /\ clientClosed' = TRUE
  /\ UNCHANGED <<om, ReturnErrors, poms, boms, pomVars, bomVars, budget>>

\* ------------------------------------------------------------- registry
NewOffsetManagerFromClient ==
  /\ om = "none"
  /\ om' = IF clientClosed THEN ErrClosedClient ELSE "ok"
  /\ UNCHANGED <<clientClosed, ReturnErrors, poms, boms, pomVars, bomVars, budget>>

\* variant: the error of selectBroker is dropped and the caller goes on to
\* fetchInitialOffset
SelectFailed_ignored(p, err) ==
  /\ ret' = [ret EXCEPT ![p] = "running"]
  /\ pc' = [pc EXCEPT ![p] = "fetch"]
  /\ perr' = perr

\* selectBroker returned err: newPartitionOffsetManager returns it to the
\* caller of ManagePartition; mainLoop goes to handleError
SelectFailed(p, err) ==
  IF ret[p] \in {"none", "running"}
  THEN /\ ret' = [ret EXCEPT ![p] = err]
       /\ pc' = [pc EXCEPT ![p] = "dead"]
       /\ perr' = perr
  ELSE /\ ret' = ret
       /\ pc' = [pc EXCEPT ![p] = "handleError"]
       /\ perr' = [perr EXCEPT ![p] = err]

\* selectBroker after the unref: RefreshCoordinator, then Coordinator, each
\* error returned as it is; with a broker in hand the next step is the ref
selectBroker(p, left) ==
  \E err \in RefreshCoordinator :
    IF err # NilErr
    THEN /\ MayFail(err, left)
         /\ budget' = Charge(err, left)
         /\ SelectFailed(p, err)
         /\ target' = target
    ELSE \E res \in Coordinator :
           /\ MayFail(res[2], left)
           /\ budget' = Charge(res[2], left)
           /\ IF res[2] # NilErr
              THEN SelectFailed(p, res[2]) /\ target' = target
              ELSE /\ pc' = [pc EXCEPT ![p] = "sb_ref"]
                   /\ target' = [target EXCEPT ![p] = res[1]]
                   /\ ret' = [ret EXCEPT ![p] = IF @ = "none" THEN "running" ELSE @]
                   /\ perr' = perr

\* ManagePartition, first half: newPartitionOffsetManager builds the pom and
\* enters selectBroker; pom.broker is nil, so there is nothing to unref.
\* The first call is for partition 0 (the partitions are interchangeable).
ManagePartition(k) ==
  /\ om = "ok"
  /\ \E p \in PomIds : pc[p] = "unborn"
  /\ (\A p \in PomIds : pc[p] = "unborn") => k[2] = 0
  /\ budget >= 1
  /\ LET p == NextPom IN
       /\ pomKey' = [pomKey EXCEPT ![p] = k]
       /\ wasManaged' = [wasManaged EXCEPT ![p] = poms[k] # NoPom]
       /\ selectBroker(p, budget - 1)
  /\ UNCHANGED <<omVars, pomBroker, offset, metadata, errors, rebalance,
                 block, closeCalled, bomVars>>

\* variant: unref leaves the count as it is
unref_kept(b) == [refs |-> refs[b], close |-> FALSE, delete |-> FALSE]

\* variant: newSubscriptions is closed by every unref
unref_early(b) ==
  [refs |-> refs[b] - 1,
   close |-> TRUE,
   delete |-> refs[b] - 1 = 0 /\ boms[bomBroker[b]] = b]

\* variant: the registry entry goes whoever it maps to
unref_any(b) ==
  [refs |-> refs[b] - 1,
   close |-> refs[b] - 1 = 0,
   delete |-> refs[b] - 1 = 0]

\* unrefBrokerOffsetManager under om.lock: the new count, whether
\* newSubscriptions is closed and whether the registry entry is deleted
unref(b) ==
  [refs |-> refs[b] - 1,
   close |-> refs[b] - 1 = 0,
   delete |-> refs[b] - 1 = 0 /\ boms[bomBroker[b]] = b]

\* selectBroker: the unref of the broker held so far, and pom.broker = nil
unrefBrokerOffsetManager(p) ==
  /\ pc[p] = "sb_unref"
  /\ LET b == pomBroker[p]
         u == unref(b)
     IN /\ refs' = [refs EXCEPT ![b] = u.refs]
        /\ chanClosed' = [chanClosed EXCEPT ![b] = @ \/ u.close]
        /\ boms' = IF u.delete THEN [boms EXCEPT ![bomBroker[b]] = NoBom] ELSE boms
        \* closing a closed channel panics
        /\ pc' = [pc EXCEPT ![p] = IF u.close /\ chanClosed[b] THEN "panicked"
                                   ELSE "sb_resolve"]
  /\ pomBroker' = [pomBroker EXCEPT ![p] = NoBom]
  /\ UNCHANGED <<clientClosed, om, ReturnErrors, poms, pomKey, ret, target,
                 perr, offset, metadata, errors, rebalance, block, wasManaged, closeCalled,
                 bomBroker, bpc, subscriptions, timerStopped, connClosed,
                 request, response, todo, cur, curErr, ctx, drained, informed,
                 reached, evalLog, budget>>

\* selectBroker in mainLoop: coordinator resolution
mainLoopSelectBroker(p) ==
  /\ pc[p] = "sb_resolve"
  /\ selectBroker(p, budget)
  /\ UNCHANGED <<omVars, pomKey, pomBroker, offset, metadata, errors,
                 rebalance, block, wasManaged, closeCalled, bomVars>>

\* variant: the lookup never finds an entry
lookup_missed(br) == NoBom

\* refBrokerOffsetManager's lookup: om.boms[broker]
lookup(br) == boms[br]

\* refBrokerOffsetManager (with newBrokerOffsetManager when the registry has
\* no entry for the broker), the assignment of its result to pom.broker, and
\* the start of the send on newSubscriptions
refBrokerOffsetManager(p) ==
  /\ pc[p] = "sb_ref"
  /\ LET br == target[p] IN
       IF lookup(br) # NoBom
       THEN /\ refs' = [refs EXCEPT ![lookup(br)] = @ + 1]
            /\ pomBroker' = [pomBroker EXCEPT ![p] = lookup(br)]
            \* a send on a closed channel panics
            /\ pc' = [pc EXCEPT ![p] = IF chanClosed[lookup(br)] THEN "panicked"
                                       ELSE "sb_send"]
            /\ UNCHANGED <<boms, bomBroker, bpc>>
       ELSE /\ FreeBoms # {}
            /\ LET b == NextBom IN
                 /\ bomBroker' = [bomBroker EXCEPT ![b] = br]
                 /\ bpc' = [bpc EXCEPT ![b] = "select"]
                 /\ boms' = [boms EXCEPT ![br] = b]
                 /\ refs' = [refs EXCEPT ![b] = @ + 1]
                 /\ pomBroker' = [pomBroker EXCEPT ![p] = b]
                 /\ pc' = [pc EXCEPT ![p] = "sb_send"]
  /\ target' = [target EXCEPT ![p] = NoBroker]
  /\ UNCHANGED <<clientClosed, om, ReturnErrors, poms, pomKey, ret,
                 perr, offset, metadata, errors, rebalance, block, wasManaged, closeCalled,
                 subscriptions, chanClosed, timerStopped, connClosed, request,
                 response, todo, cur, curErr, ctx, drained, informed, reached, evalLog,
                 budget>>

\* fetchInitialOffset's return value: err is the transport error of
\* FetchOffset, blk the block of the response (absent when GetBlock is nil).
\* The default arm of the switch returns err, which is nil there.
fetchReturn(err, blk) ==
  CASE err # NilErr -> err
    [] ~blk.present -> ErrIncompleteResponse
    [] blk.Err = ErrNoError -> NilErr
    [] OTHER -> err

\* variant: the metadata of the block is not stored
fetchStore_offsetOnly(p, err, blk) ==
  IF err = NilErr /\ blk.present /\ blk.Err = ErrNoError
  THEN [offset |-> blk.Offset, metadata |-> metadata[p]]
  ELSE [offset |-> offset[p], metadata |-> metadata[p]]

\* fetchInitialOffset's assignments: offset and metadata after the switch
fetchStore(p, err, blk) ==
  IF err = NilErr /\ blk.present /\ blk.Err = ErrNoError
  THEN [offset |-> blk.Offset, metadata |-> blk.Metadata]
  ELSE [offset |-> offset[p], metadata |-> metadata[p]]

\* fetchInitialOffset, and the rest of newPartitionOffsetManager: on an error
\* the pom is dropped, otherwise mainLoop is started and the pom returned
fetchInitialOffset(p) ==
  /\ pc[p] = "fetch"
  /\ \E err \in {NilErr, ErrNotConnected}, blk \in FetchBlocks \cup {NoBlock} :
       /\ err # NilErr => blk = NoBlock
       /\ block' = [block EXCEPT ![p] = blk]
       /\ offset' = [offset EXCEPT ![p] = fetchStore(p, err, blk).offset]
       /\ metadata' = [metadata EXCEPT ![p] = fetchStore(p, err, blk).metadata]
       /\ IF fetchReturn(err, blk) # NilErr
          THEN /\ ret' = [ret EXCEPT ![p] = fetchReturn(err, blk)]
               /\ pc' = [pc EXCEPT ![p] = "dead"]
          ELSE /\ ret' = [ret EXCEPT ![p] = "registering"]
               /\ pc' = [pc EXCEPT ![p] = "idle"]
  /\ UNCHANGED <<omVars, pomKey, pomBroker, target, perr, errors, rebalance,
                 wasManaged, closeCalled, bomVars, budget>>

\* ManagePartition's test under om.lock: topicManagers[partition] != nil
isManaged(p) == poms[pomKey[p]] # NoPom

\* ManagePartition, second half: under om.lock, register the pom unless the
\* topic/partition is already managed
Register(p) ==
  /\ ret[p] = "registering"
  /\ IF isManaged(p)
     THEN /\ ret' = [ret EXCEPT ![p] = ConfigurationError]
          /\ poms' = poms
     ELSE /\ ret' = [ret EXCEPT ![p] = "ok"]
          /\ poms' = [poms EXCEPT ![pomKey[p]] = p]
  /\ block' = [block EXCEPT ![p] = NoBlock]   \* the fetch response is dropped
  /\ UNCHANGED <<clientClosed, om, ReturnErrors, boms, pomKey, pc, pomBroker,
                 target, perr, offset, metadata, errors, rebalance, wasManaged, closeCalled,
                 bomVars, budget>>

\* mainLoop: a receive from pom.rebalance, then selectBroker
mainLoop(p) ==
  /\ pc[p] = "idle"
  /\ rebalance[p] > 0
  /\ rebalance' = [rebalance EXCEPT ![p] = @ - 1]
  /\ pc' = [pc EXCEPT ![p] = IF pomBroker[p] # NoBom THEN "sb_unref" ELSE "sb_resolve"]
  /\ UNCHANGED <<omVars, pomKey, ret, pomBroker, target, perr, offset,
                 metadata, errors, block, wasManaged, closeCalled, bomVars, budget>>

\* mainLoop: pom.handleError(err) after a failed selectBroker
mainLoopHandleError(p) ==
  /\ pc[p] = "handleError"
  /\ CanHandleError(p)
  /\ errors' = handleError(p, perr[p])
  /\ perr' = [perr EXCEPT ![p] = NilErr]
  /\ pc' = [pc EXCEPT ![p] = "rearm"]
  /\ UNCHANGED <<omVars, pomKey, ret, pomBroker, target, offset, metadata,
                 rebalance, block, wasManaged, closeCalled, bomVars, budget>>

\* mainLoop: pom.rebalance <- none{} after a failed selectBroker
mainLoopRearm(p) ==
  /\ pc[p] = "rearm"
  /\ rebalance[p] < 1
  /\ rebalance' = [rebalance EXCEPT ![p] = @ + 1]
  /\ pc' = [pc EXCEPT ![p] = "idle"]
  /\ UNCHANGED <<omVars, pomKey, ret, pomBroker, target, perr, offset,
                 metadata, errors, block, wasManaged, closeCalled, bomVars, budget>>

\* the handle's accessors; Offset() and Metadata() read under pom.lock
Offset(p) == offset[p]
Metadata(p) == metadata[p]

SetOffset(p, v) ==
  /\ ret[p] = "ok"
  /\ budget >= 1
  /\ budget' = budget - 1
  /\ offset' = [offset EXCEPT ![p] = v]
  /\ UNCHANGED <<omVars, pomKey, pc, ret, pomBroker, target, perr, metadata,
                 errors, rebalance, block, wasManaged, closeCalled, bomVars>>

SetMetadata(p, v) ==
  /\ ret[p] = "ok"
  /\ budget >= 1
  /\ budget' = budget - 1
  /\ metadata' = [metadata EXCEPT ![p] = v]
  /\ UNCHANGED <<omVars, pomKey, pc, ret, pomBroker, target, perr, offset,
                 errors, rebalance, block, wasManaged, closeCalled, bomVars>>

\* the caller receives from Errors()
Errors(p) ==
  /\ ret[p] = "ok"
  /\ errors[p] # <<>>
  /\ errors' = [errors EXCEPT ![p] = Tail(@)]
  /\ UNCHANGED <<omVars, pomKey, pc, ret, pomBroker, target, perr, offset,
                 metadata, rebalance, block, wasManaged, closeCalled, bomVars, budget>>

\* AsyncClose has an empty body: the call leaves the partition manager, its
\* goroutine, its broker manager and the registry as they are
AsyncClose(p) ==
  /\ ret[p] = "ok"
  /\ ~closeCalled[p]
  /\ budget >= 1
  /\ budget' = budget - 1
  /\ closeCalled' = [closeCalled EXCEPT ![p] = TRUE]
  /\ UNCHANGED <<omVars, pomKey, pc, ret, pomBroker, target, perr, offset,
                 metadata, errors, rebalance, block, wasManaged, bomVars>>

\* Close calls AsyncClose and returns nil
Close(p) == AsyncClose(p)

\* ---------------------------------------------------- brokerOffsetManager
SubsOf(S, k) == {s \in S : pomKey[s] = k}

\* AddBlock keeps one block per topic/partition: a later block for the same
\* pair replaces the earlier one
AddBlock(r, k, o, m) == [r EXCEPT ![k] = [present |-> TRUE, offset |-> o, metadata |-> m]]

\* constructRequest: one AddBlock per subscription, each read under s.lock,
\* in the order the range over the map happens to take
RECURSIVE AddBlocks(_, _)
AddBlocks(r, order) ==
  IF order = <<>> THEN r
  ELSE AddBlocks(AddBlock(r, pomKey[Head(order)], offset[Head(order)], metadata[Head(order)]),
                 Tail(order))
Orders(S) == {o \in [1..Cardinality(S) -> S] : \A i, j \in 1..Cardinality(S) : i # j => o[i] # o[j]}
constructRequest(b) == {AddBlocks(EmptyRequest, o) : o \in Orders(subscriptions[b])}

\* variant: abandonBroker leaves the registry as it is
abandonBroker_kept(b) == boms

\* abandonBroker: delete(om.boms, bom.broker) under om.lock
abandonBroker(b) == [boms EXCEPT ![bomBroker[b]] = NoBom]

\* what flushToBroker reads for s in response.Errors
Entry(resp, k) == IF ~resp[k[1]].present THEN NoTopic ELSE resp[k[1]].errs[k[2]]

\* an entry no subscription left in the range will look up is forgotten
Read(resp, k, rest) ==
  IF SubsOf(rest, k) # {} \/ ~resp[k[1]].present THEN resp
  ELSE [resp EXCEPT ![k[1]].errs[k[2]] = NoPartition]

\* variant: the coordinator-moved codes take the default arm of the switch
Verdict_surfaced(e) ==
  CASE e \in {NoTopic, NoPartition} -> [report |-> ErrIncompleteResponse, drop |-> TRUE]
    [] e = ErrNoError -> [report |-> NilErr, drop |-> FALSE]
    [] OTHER -> [report |-> e, drop |-> TRUE]

\* variant: a code of the default arm leaves the subscription in place
Verdict_lenient(e) ==
  CASE e \in {NoTopic, NoPartition} -> [report |-> ErrIncompleteResponse, drop |-> TRUE]
    [] e = ErrNoError -> [report |-> NilErr, drop |-> FALSE]
    [] e \in {ErrUnknownTopicOrPartition, ErrNotLeaderForPartition, ErrLeaderNotAvailable}
         -> [report |-> NilErr, drop |-> TRUE]
    [] OTHER -> [report |-> NilErr, drop |-> FALSE]

\* the per-subscription switch of flushToBroker: the error handed to
\* handleError (nil for none) and whether the subscription is deleted and
\* sent a rebalance signal
Verdict(e) ==
  CASE e \in {NoTopic, NoPartition} -> [report |-> ErrIncompleteResponse, drop |-> TRUE]
    [] e = ErrNoError -> [report |-> NilErr, drop |-> FALSE]
    [] e \in {ErrUnknownTopicOrPartition, ErrNotLeaderForPartition, ErrLeaderNotAvailable}
         -> [report |-> NilErr, drop |-> TRUE]
    [] OTHER -> [report |-> e, drop |-> TRUE]

\* responses a broker can give to a request: codes for the pairs it covers
ResponsesTo(r) ==
  {resp \in Responses :
     \A k \in Keys : ~r[k].present => resp[k[1]].errs[k[2]] = NoPartition}

\* the record of a range that starts
StartLog(b, resp) ==
  [entry |-> [p \in PomIds |-> IF p \in subscriptions[b]
                                THEN EntryKind(Entry(resp, pomKey[p]))
                                ELSE NotSubscribed],
   reported |-> {}, signalled |-> {}]

\* flushToBroker returns to mainLoop's select
FlushReturns(b) ==
  /\ bpc' = [bpc EXCEPT ![b] = "select"]
  /\ response' = [response EXCEPT ![b] = NilResponse]
  /\ ctx' = [ctx EXCEPT ![b] = "none"]

\* mainLoop, case <-bom.timer.C: flushToBroker starts with constructRequest.
\* Each block is read under its partition's lock and the reads of distinct
\* partitions commute with SetOffset/SetMetadata of the others, so the
\* request is built in one step.
flushToBroker(b) ==
  /\ bpc[b] = "select"
  /\ ~timerStopped[b]
  /\ budget >= 2
  /\ budget' = budget - 2
  /\ \E r \in constructRequest(b) : request' = [request EXCEPT ![b] = r]
  /\ bpc' = [bpc EXCEPT ![b] = "commit"]
  /\ UNCHANGED <<omVars, pomVars, bomBroker, subscriptions, refs, chanClosed,
                 timerStopped, connClosed, response, todo, cur, curErr, ctx,
                 drained, informed, reached, evalLog>>

\* flushToBroker: CommitOffset answered; the range over the subscriptions starts
CommitOffset(b) ==
  /\ bpc[b] = "commit"
  /\ \E resp \in ResponsesTo(request[b]) :
       response' = [response EXCEPT ![b] = [nil |-> FALSE, Errors |-> resp]]
  /\ request' = [request EXCEPT ![b] = EmptyRequest]
  /\ todo' = [todo EXCEPT ![b] = subscriptions[b]]
  /\ bpc' = [bpc EXCEPT ![b] = "eval"]
  /\ ctx' = [ctx EXCEPT ![b] = "eval"]
  /\ evalLog' = [evalLog EXCEPT ![b] = StartLog(b, response'[b].Errors)]
  /\ UNCHANGED <<omVars, pomVars, bomBroker, subscriptions, refs, chanClosed,
                 timerStopped, connClosed, cur, curErr, drained, informed,
                 reached, budget>>

\* flushToBroker: CommitOffset failed (nil response); abort abandons the
\* broker, closes it and starts its range over the subscriptions
abort(b) ==
  /\ bpc[b] = "commit"
  /\ boms' = abandonBroker(b)
  /\ connClosed' = [connClosed EXCEPT ![b] = TRUE]
  /\ request' = [request EXCEPT ![b] = EmptyRequest]
  /\ todo' = [todo EXCEPT ![b] = subscriptions[b]]
  /\ bpc' = [bpc EXCEPT ![b] = "abort_subs"]
  /\ ctx' = [ctx EXCEPT ![b] = "abort_subs"]
  /\ drained' = [drained EXCEPT ![b] = {}]
  /\ informed' = [informed EXCEPT ![b] = {}]
  /\ reached' = [reached EXCEPT ![b] = {}]
  /\ UNCHANGED <<clientClosed, om, ReturnErrors, poms, pomVars, bomBroker,
                 subscriptions, refs, chanClosed, timerStopped,
                 response, cur, curErr, evalLog, budget>>

\* abort: `for pom := range bom.subscriptions`
abortSubscriptions(b) ==
  /\ bpc[b] = "abort_subs"
  /\ IF todo[b] = {}
     THEN /\ bpc' = [bpc EXCEPT ![b] = "abort_drain"]
          /\ ctx' = [ctx EXCEPT ![b] = "abort_drain"]
          /\ UNCHANGED <<todo, cur, curErr>>
     ELSE \E s \in todo[b] :
            /\ todo' = [todo EXCEPT ![b] = @ \ {s}]
            /\ cur' = [cur EXCEPT ![b] = s]
            /\ curErr' = [curErr EXCEPT ![b] = ErrNotConnected]
            /\ bpc' = [bpc EXCEPT ![b] = "err"]
            /\ ctx' = ctx
  /\ UNCHANGED <<omVars, pomVars, bomBroker, subscriptions, refs, chanClosed,
                 timerStopped, connClosed, request, response, drained,
                 informed, reached, evalLog, budget>>

\* abort: `for s := range bom.newSubscriptions` receives a pending partition
abortNewSubscriptions(b) ==
  /\ bpc[b] = "abort_drain"
  /\ ~chanClosed[b]
  /\ \E p \in Pending(b) :
       /\ pc' = [pc EXCEPT ![p] = AfterSelect(p)]
       /\ cur' = [cur EXCEPT ![b] = p]
       /\ drained' = [drained EXCEPT ![b] = @ \cup {p}]
  /\ curErr' = [curErr EXCEPT ![b] = ErrNotConnected]
  /\ bpc' = [bpc EXCEPT ![b] = "err"]
  /\ UNCHANGED <<omVars, pomKey, ret, pomBroker, target, perr, offset,
                 metadata, errors, rebalance, block, wasManaged, closeCalled, bomBroker,
                 subscriptions, refs, chanClosed, timerStopped, connClosed,
                 request, response, todo, ctx, informed, reached, evalLog, budget>>

\* abort: newSubscriptions is closed, abort returns into flushToBroker, whose
\* range over the subscriptions reads response.Errors of the nil response
abortReturns(b) ==
  /\ bpc[b] = "abort_drain"
  /\ chanClosed[b]
  /\ IF subscriptions[b] # {}
     THEN /\ bpc' = [bpc EXCEPT ![b] = "panicked"]   \* nil pointer dereference
          /\ ctx' = [ctx EXCEPT ![b] = "none"]
          /\ UNCHANGED response
     ELSE FlushReturns(b)
  /\ UNCHANGED <<omVars, pomVars, bomBroker, request, subscriptions, refs,
                 chanClosed, timerStopped, connClosed, todo, cur, curErr,
                 drained, informed, reached, evalLog, budget>>

\* flushToBroker: `for s := range bom.subscriptions` over a response
flushSubscriptions(b) ==
  /\ bpc[b] = "eval"
  /\ IF todo[b] = {}
     THEN /\ FlushReturns(b)
          /\ evalLog' = [evalLog EXCEPT ![b] = NoLog]
          /\ UNCHANGED <<todo, cur, curErr, subscriptions>>
     ELSE \E s \in todo[b] :
            LET v == Verdict(Entry(response[b].Errors, pomKey[s])) IN
            /\ todo' = [todo EXCEPT ![b] = @ \ {s}]
            /\ response' = [response EXCEPT ![b].Errors = Read(@, pomKey[s], todo[b] \ {s})]
            /\ ctx' = ctx
            /\ evalLog' = evalLog
            /\ IF ~v.drop
               THEN UNCHANGED <<bpc, cur, curErr, subscriptions>>
               ELSE /\ cur' = [cur EXCEPT ![b] = s]
                    /\ curErr' = [curErr EXCEPT ![b] = v.report]
                    /\ IF v.report # NilErr
                       THEN /\ bpc' = [bpc EXCEPT ![b] = "err"]
                            /\ subscriptions' = subscriptions
                       ELSE /\ bpc' = [bpc EXCEPT ![b] = "sig"]
                            /\ subscriptions' = [subscriptions EXCEPT ![b] = @ \ {s}]
  /\ UNCHANGED <<omVars, pomVars, bomBroker, refs, chanClosed, timerStopped,
                 connClosed, request, drained, informed, reached, budget>>

\* loop body: s.handleError(err), and in flushToBroker the delete that follows
bomHandleError(b) ==
  /\ bpc[b] = "err"
  /\ CanHandleError(cur[b])
  /\ errors' = handleError(cur[b], curErr[b])
  /\ subscriptions' = IF ctx[b] = "eval"
                      THEN [subscriptions EXCEPT ![b] = @ \ {cur[b]}]
                      ELSE subscriptions
  /\ informed' = IF ctx[b] = "eval" THEN informed
                 ELSE [informed EXCEPT ![b] = @ \cup {cur[b]}]
  /\ evalLog' = IF ctx[b] = "eval"
                THEN [evalLog EXCEPT ![b].reported = @ \cup {cur[b]}]
                ELSE evalLog
  /\ bpc' = [bpc EXCEPT ![b] = "sig"]
  /\ UNCHANGED <<omVars, pomKey, pc, ret, pomBroker, target, perr, offset,
                 metadata, rebalance, block, wasManaged, closeCalled, bomBroker, refs,
                 chanClosed, timerStopped, connClosed, request, response, todo,
                 cur, curErr, ctx, drained, reached, budget>>

\* loop body: s.rebalance <- none{}
bomRebalance(b) ==
  /\ bpc[b] = "sig"
  /\ rebalance[cur[b]] < 1
  /\ rebalance' = [rebalance EXCEPT ![cur[b]] = @ + 1]
  /\ reached' = IF ctx[b] = "eval" THEN reached
                ELSE [reached EXCEPT ![b] = @ \cup {cur[b]}]
  /\ evalLog' = IF ctx[b] = "eval"
                THEN [evalLog EXCEPT ![b].signalled = @ \cup {cur[b]}]
                ELSE evalLog
  /\ cur' = [cur EXCEPT ![b] = NoPom]
  /\ curErr' = [curErr EXCEPT ![b] = NilErr]
  /\ bpc' = [bpc EXCEPT ![b] = ctx[b]]
  /\ UNCHANGED <<omVars, pomKey, pc, ret, pomBroker, target, perr, offset,
                 metadata, errors, block, wasManaged, closeCalled, bomBroker, subscriptions,
                 refs, chanClosed, timerStopped, connClosed, request, response,
                 todo, ctx, drained, informed, budget>>

\* mainLoop, case s, ok := <-bom.newSubscriptions with ok
bomSubscribe(b) ==
  /\ bpc[b] = "select"
  /\ ~chanClosed[b]
  /\ \E p \in Pending(b) :
       /\ pc' = [pc EXCEPT ![p] = AfterSelect(p)]
       /\ subscriptions' = [subscriptions EXCEPT ![b] = @ \cup {p}]
  /\ UNCHANGED <<omVars, pomKey, ret, pomBroker, target, perr, offset,
                 metadata, errors, rebalance, block, wasManaged, closeCalled, bomBroker,
                 bpc, refs, chanClosed, timerStopped, connClosed, request,
                 response, todo, cur, curErr, ctx, drained, informed, reached, evalLog,
                 budget>>

\* mainLoop, case s, ok := <-bom.newSubscriptions with !ok
bomStop(b) ==
  /\ bpc[b] = "select"
  /\ chanClosed[b]
  /\ timerStopped' = [timerStopped EXCEPT ![b] = TRUE]
  /\ bpc' = [bpc EXCEPT ![b] = "stopped"]
  /\ UNCHANGED <<omVars, pomVars, bomBroker, subscriptions, refs, chanClosed,
                 connClosed, request, response, todo, cur, curErr, ctx,
                 drained, informed, reached, evalLog, budget>>

\* ------------------------------------------------------- specification
Next ==
  \/ CloseClient
  \/ NewOffsetManagerFromClient
  \/ \E k \in Keys : ManagePartition(k)
  \/ \E p \in PomIds : unrefBrokerOffsetManager(p)
  \/ \E p \in PomIds : mainLoopSelectBroker(p)
  \/ \E p \in PomIds : refBrokerOffsetManager(p)
  \/ \E p \in PomIds : fetchInitialOffset(p)
  \/ \E p \in PomIds : Register(p)
  \/ \E p \in PomIds : mainLoop(p)
  \/ \E p \in PomIds : mainLoopHandleError(p)
  \/ \E p \in PomIds : mainLoopRearm(p)
  \/ \E p \in PomIds, v \in SetOffsets : SetOffset(p, v)
  \/ \E p \in PomIds, v \in SetMetadatas : SetMetadata(p, v)
  \/ \E p \in PomIds : Errors(p)
  \/ \E p \in PomIds : AsyncClose(p)
  \/ \E p \in PomIds : Close(p)
  \/ \E b \in BomIds : flushToBroker(b)
  \/ \E b \in BomIds : CommitOffset(b)
  \/ \E b \in BomIds : abort(b)
  \/ \E b \in BomIds : abortSubscriptions(b)
  \/ \E b \in BomIds : abortNewSubscriptions(b)
  \/ \E b \in BomIds : abortReturns(b)
  \/ \E b \in BomIds : flushSubscriptions(b)
  \/ \E b \in BomIds : bomHandleError(b)
  \/ \E b \in BomIds : bomRebalance(b)
  \/ \E b \in BomIds : bomSubscribe(b)
  \/ \E b \in BomIds : bomStop(b)

Spec == Init /\ [][Next]_vars

\* ------------------------------------------------------------ properties
\* the ManagePartition call that built p has returned
Returned(p) == ret[p] \notin {"none", "running", "registering"}
\* p is inside selectBroker
InSelectBroker(p) == pc[p] \in {"sb_unref", "sb_resolve", "sb_ref", "sb_send"}
\* the partition managers whose pom.broker is b
PointingAt(b) == {p \in PomIds : pomBroker[p] = b}
\* steps of the goroutine of p while it runs the ManagePartition call
CallStep(p) == ~Returned(p) /\ <<pc[p], ret[p]>>' # <<pc[p], ret[p]>>

\* C1: the registry holds at most one manager per topic/partition; a
\* ManagePartition call for a pair that is registered when the call is made
\* returns ConfigurationError, and the manager registered first stays
\* registered, its offset and metadata untouched by the steps of that call.
C1_DuplicateRejected ==
  /\ [](/\ \A k \in Keys : poms[k] \in PomIds \cup {NoPom}
        /\ \A p \in PomIds : wasManaged[p] /\ Returned(p) => ret[p] = ConfigurationError)
  /\ [][\A p \in PomIds : wasManaged[p] /\ CallStep(p) =>
          /\ poms'[pomKey[p]] = poms[pomKey[p]]
          /\ offset'[poms[pomKey[p]]] = offset[poms[pomKey[p]]]
          /\ metadata'[poms[pomKey[p]]] = metadata[poms[pomKey[p]]]]_vars

\* C2: whenever no partition manager is inside selectBroker, refs of every
\* broker manager is the number of partition managers whose pom.broker is it.
C2_RefsCountPointers ==
  (\A p \in PomIds : ~InSelectBroker(p)) =>
     \A b \in BomIds : refs[b] = Cardinality(PointingAt(b))

\* two partition managers hold the same broker manager, nobody is in selectBroker
C2_Witness ==
  /\ \A p \in PomIds : ~InSelectBroker(p)
  /\ \E b \in BomIds : Cardinality(PointingAt(b)) = 2 /\ refs[b] = 2 /\ bpc[b] = "select"

\* C3: the offset a flush puts into its request for a topic/partition is the
\* offset the managed partition holds when the flush begins, that is the last
\* value given to SetOffset or else the fetched one.
C3_NoLostUpdate ==
  [][\A b \in BomIds : bpc[b] = "select" /\ bpc'[b] = "commit" =>
       \A k \in Keys : request'[b][k].present /\ poms[k] # NoPom =>
          request'[b][k].offset = Offset(poms[k])]_vars

\* abort has run on b
Aborted(b) == connClosed[b]

\* C4: when CommitOffset fails, the broker manager is no longer in the
\* registry and its connection is closed; once abort's first loop is over
\* every subscription has been handed the error and sent a rebalance signal,
\* so has every partition received from newSubscriptions once its turn of the
\* second loop is over, and abort does not return while a partition is
\* blocked on newSubscriptions; with errors surfaced the error handed over is
\* appended to the partition's errors.
C4_AbortInformsAll ==
  /\ [](\A b \in BomIds :
          /\ bpc[b] \in {"abort_subs", "abort_drain"} => Aborted(b)
          /\ Aborted(b) =>
               /\ boms[bomBroker[b]] # b
               /\ ctx[b] # "abort_subs" =>
                    subscriptions[b] \subseteq (informed[b] \cap reached[b])
               /\ bpc[b] \notin {"err", "sig"} =>
                    drained[b] \subseteq (informed[b] \cap reached[b])
               /\ ctx[b] = "none" => Pending(b) = {})
  /\ [][\A b \in BomIds :
          /\ ctx[b] # "eval" /\ bpc[b] = "err" /\ bpc'[b] = "sig" =>
               /\ curErr[b] = ErrNotConnected
               /\ cur[b] \in informed'[b]
               /\ ReturnErrors => errors'[cur[b]] = Append(errors[cur[b]], ErrNotConnected)
          /\ ctx[b] # "eval" /\ bpc[b] = "sig" /\ bpc'[b] # "sig" =>
               /\ cur[b] \in informed[b] /\ cur[b] \in reached'[b]
               /\ rebalance'[cur[b]] = rebalance[cur[b]] + 1]_vars

\* abort has informed a subscription and a partition it took from newSubscriptions
C4_Witness ==
  /\ ReturnErrors
  /\ \E b \in BomIds :
       /\ Aborted(b) /\ bpc[b] = "abort_drain"
       /\ subscriptions[b] # {} /\ drained[b] # {}
       /\ (subscriptions[b] \cup drained[b]) \subseteq (informed[b] \cap reached[b])
       /\ \A p \in subscriptions[b] \cup drained[b] : ErrNotConnected \in {errors[p][i] : i \in DOMAIN errors[p]}

\* C5: a coordinator-moved code in the response removes the subscription and
\* sends it a rebalance signal, and its errors are left as they are, whatever
\* Return.Errors says.
C5_MovedNotSurfaced ==
  /\ [](\A b \in BomIds : bpc[b] = "sig" /\ ctx[b] = "eval" => cur[b] \notin subscriptions[b])
  /\ [][\A b \in BomIds :
          /\ \A s \in PomIds :
               /\ bpc[b] = "eval" /\ s \in todo[b] /\ s \notin todo'[b]
               /\ Entry(response[b].Errors, pomKey[s]) \in Moved
               => /\ s \notin subscriptions'[b]
                  /\ errors' = errors
                  /\ bpc'[b] = "sig" /\ cur'[b] = s /\ curErr'[b] = NilErr
          /\ bpc[b] = "sig" /\ bpc'[b] # "sig" /\ curErr[b] = NilErr =>
               /\ rebalance'[cur[b]] = rebalance[cur[b]] + 1
               /\ errors' = errors]_vars

\* with errors surfaced, a moved subscription is about to be signalled
C5_Witness ==
  /\ ReturnErrors
  /\ \E b \in BomIds :
       /\ bpc[b] = "sig" /\ ctx[b] = "eval" /\ curErr[b] = NilErr
       /\ cur[b] \notin subscriptions[b] /\ errors[cur[b]] = <<>>

\* C6: a partition manager that was sent a rebalance signal keeps retrying:
\* a failed resolution is reported and the signal re-armed, until it holds
\* and is subscribed to the broker manager of the coordinator. A retry that
\* has a failed resolution to report therefore gets to report it: errors has
\* room, or the caller of ManagePartition holds (or may yet be given) the
\* handle whose Errors() makes room.
C6_RetryReports ==
  \A p \in PomIds :
    pc[p] = "handleError" => CanHandleError(p) \/ ~Returned(p) \/ ret[p] = "ok"

\* C7: a partition whose coordinator has a broker manager in the registry
\* is given that one, with refs raised by one, so that two managed partitions
\* on one broker share a manager with refs 2; an unref from refs 2 leaves
\* refs 1, the registry entry in place, newSubscriptions open and the goroutine
\* where it was; a broker manager with refs above zero has newSubscriptions
\* open and its goroutine alive.
C7_SharedBrokerManager ==
  /\ [](\A b \in BomIds :
          /\ refs[b] >= 1 => ~chanClosed[b] /\ bpc[b] \notin {"unused", "stopped", "panicked"}
          /\ \A p, q \in PomIds :
               p # q /\ ret[p] = "ok" /\ ret[q] = "ok" /\ PointingAt(b) = {p, q} => refs[b] = 2)
  /\ [][\A p \in PomIds :
          /\ pc[p] = "sb_ref" /\ pc'[p] # "sb_ref" /\ boms[target[p]] # NoBom =>
               /\ pomBroker'[p] = boms[target[p]]
               /\ refs'[boms[target[p]]] = refs[boms[target[p]]] + 1
               /\ boms' = boms /\ bpc' = bpc
          /\ pc[p] = "sb_unref" /\ pc'[p] # "sb_unref" /\ refs[pomBroker[p]] = 2 =>
               /\ refs'[pomBroker[p]] = 1
               /\ boms' = boms /\ chanClosed' = chanClosed /\ bpc' = bpc]_vars

\* of two managed partitions that shared a broker manager one has detached
C7_Witness ==
  \E p, q \in PomIds, b \in BomIds :
    /\ p # q /\ ret[p] = "ok" /\ ret[q] = "ok"
    /\ pomBroker[p] = b /\ pomBroker[q] = NoBom /\ pc[q] = "sb_resolve"
    /\ refs[b] = 1 /\ boms[bomBroker[b]] = b /\ ~chanClosed[b]
    /\ bpc[b] \notin {"unused", "stopped", "panicked"}

\* C8: a fetch response whose block for the partition carries an error code
\* makes ManagePartition return that code, and no handle.
C8_FetchErrorReturned ==
  \A p \in PomIds :
    block[p].present /\ block[p].Err # ErrNoError => ret[p] = block[p].Err

\* C9: when ManagePartition returns a handle after a fetch response without
\* error code, Offset() and Metadata() are the offset and metadata of that
\* response.
C9_InitialOffsetFetched ==
  [][\A p \in PomIds :
       ret[p] = "registering" /\ ret'[p] = "ok"
       /\ block[p].present /\ block[p].Err = ErrNoError
       => Offset(p)' = block[p].Offset /\ Metadata(p)' = block[p].Metadata]_vars

\* the call has just returned the handle: nothing was set on it yet
C9_Witness ==
  \E p \in PomIds :
    /\ ret[p] = "ok" /\ Offset(p) = 42 /\ Metadata(p) = "m"
    /\ budget = MaxBudget - 1

C12_CloseReleases ==
  [][\A p \in PomIds :
       ~closeCalled[p] /\ closeCalled'[p] /\ pomBroker[p] # NoBom =>
          /\ refs'[pomBroker[p]] = refs[pomBroker[p]] - 1
          /\ p \notin subscriptions'[pomBroker[p]]]_vars

\* the step of p that is an unref of b
UnrefStep(p, b) == pc[p] = "sb_unref" /\ pc'[p] # "sb_unref" /\ pomBroker[p] = b

\* C13: an unref lowers refs by one; newSubscriptions is closed by the unref
\* that takes refs to zero and by no other; the registry entry is removed by
\* that unref when it still maps to this broker manager, and otherwise the
\* registry is left as it is, a replacement under the same broker included.
C13_UnrefSparesReplacement ==
  [][\A p \in PomIds, b \in BomIds : UnrefStep(p, b) =>
       /\ refs'[b] = refs[b] - 1
       /\ chanClosed'[b] = (chanClosed[b] \/ refs'[b] = 0)
       /\ \A c \in BomIds \ {b} : chanClosed'[c] = chanClosed[c]
       /\ boms' = IF refs'[b] = 0 /\ boms[bomBroker[b]] = b
                  THEN [boms EXCEPT ![bomBroker[b]] = NoBom]
                  ELSE boms
       /\ boms[bomBroker[b]] \notin {b, NoBom} =>
            boms'[bomBroker[b]] = boms[bomBroker[b]]]_vars

\* the last partition of an abandoned broker manager has just released it:
\* refs is zero, newSubscriptions closed, and the replacement is registered
C13_Witness ==
  \E p \in PomIds, b, c \in BomIds :
    /\ pc[p] = "sb_resolve" /\ pomBroker[p] = NoBom /\ ret[p] = "ok"
    /\ Aborted(b) /\ p \in reached[b] /\ refs[b] = 0 /\ chanClosed[b]
    /\ c # b /\ boms[bomBroker[b]] = c /\ refs[c] >= 1 /\ ~chanClosed[c]

\* C14: once CommitOffset has failed, the broker manager's goroutine runs
\* abort and then ends: it reads no entry of a response for that flush, it
\* hands out no error and no signal other than abort's, and it neither
\* returns to select nor starts another flush or abort.
C14_AbortEndsGoroutine ==
  \A b \in BomIds : Aborted(b) =>
    /\ bpc[b] \in {"abort_subs", "abort_drain", "err", "sig", "stopped"}
    /\ ctx[b] # "eval"

\* the offsets a partition manager can have been given: by a fetch response
\* without error code, or by SetOffset
GivenOffsets == {blk.Offset : blk \in {f \in FetchBlocks : f.Err = ErrNoError}} \cup SetOffsets

\* C15: the offset a commit request carries for a topic/partition is the
\* initially fetched one or a value given to SetOffset, never the zero a
\* partition manager holds between its attachment and the end of its fetch.
C15_NoUnfetchedOffset ==
  [][\A b \in BomIds : bpc[b] = "select" /\ bpc'[b] = "commit" =>
       \A k \in Keys : request'[b][k].present =>
          request'[b][k].offset \in GivenOffsets]_vars

\* the subscriptions the running range over a response started with, and
\* those of them whose entry is of the given kinds
Before(b) == {s \in PomIds : evalLog[b].entry[s] # NotSubscribed}
WithEntry(b, kinds) == {s \in PomIds : evalLog[b].entry[s] \in kinds}
\* the error flushToBroker reports for an entry that is neither none nor moved
ReportFor(e) == IF e \in {NoTopic, NoPartition} THEN ErrIncompleteResponse ELSE e

\* C16: when the range of a flush whose CommitOffset succeeded is over, the
\* subscriptions are the earlier ones whose entry is ErrNoError; each of the
\* others was removed and sent one rebalance signal, and those whose entry is
\* missing or not a coordinator-moved code were handed the error first.
C16_FlushKeepsNone ==
  /\ [](\A b \in BomIds :
          /\ ctx[b] = "eval" =>
               /\ evalLog[b].reported \subseteq WithEntry(b, {"other"})
               /\ evalLog[b].signalled \subseteq Before(b) \ subscriptions[b]
               /\ bpc[b] = "sig" =>
                    /\ cur[b] \notin subscriptions[b] \cup evalLog[b].signalled
                    /\ cur[b] \in evalLog[b].reported \cup WithEntry(b, {"moved"})
          /\ bpc[b] = "eval" /\ todo[b] = {} =>
               /\ subscriptions[b] = WithEntry(b, {"none"})
               /\ evalLog[b].signalled = WithEntry(b, {"moved", "other"})
               /\ evalLog[b].reported = WithEntry(b, {"other"}))
  /\ [][\A b \in BomIds : ctx[b] = "eval" =>
          /\ \A s \in PomIds :
               /\ bpc[b] = "eval" /\ s \in todo[b] /\ s \notin todo'[b]
               /\ evalLog[b].entry[s] = "other"
               => /\ bpc'[b] = "err" /\ cur'[b] = s
                  /\ curErr'[b] = ReportFor(Entry(response[b].Errors, pomKey[s]))
          /\ bpc[b] = "err" /\ bpc'[b] = "sig" =>
               /\ cur[b] \in evalLog'[b].reported
               /\ ReturnErrors => errors'[cur[b]] = Append(errors[cur[b]], curErr[b])
          /\ bpc[b] = "sig" /\ bpc'[b] # "sig" =>
               /\ rebalance'[cur[b]] = rebalance[cur[b]] + 1
               /\ \A p \in PomIds \ {cur[b]} : rebalance'[p] <= rebalance[p]]_vars

\* a flush has run over two subscriptions: one stays, the other was handed
\* its error and signalled
C16_Witness ==
  /\ ReturnErrors
  /\ \E b \in BomIds, s, t \in PomIds :
       /\ bpc[b] = "eval" /\ todo[b] = {} /\ Before(b) = {s, t}
       /\ subscriptions[b] = {s} /\ evalLog[b].entry[s] = "none"
       /\ evalLog[b].entry[t] = "other"
       /\ evalLog[b].reported = {t} /\ evalLog[b].signalled = {t}
       /\ errors[t] # <<>> /\ rebalance[t] = 1

\* C17: a broker manager whose refs is zero and whose newSubscriptions is
\* closed has stopped its timer and ended its goroutine, or its goroutine is
\* still there to do so; and a goroutine that ended did so on the closed
\* channel, after stopping the timer.
C17_ClosedStops ==
  \A b \in BomIds :
    /\ chanClosed[b] /\ refs[b] = 0 => timerStopped[b] \/ bpc[b] # "panicked"
    /\ bpc[b] = "stopped" => chanClosed[b] /\ timerStopped[b]

\* C18: refs is never negative; newSubscriptions, once closed, is not closed
\* again; and no partition manager sends itself, or is blocked sending itself,
\* on a closed newSubscriptions: a broker manager in the registry has the
\* channel open.
C18_RefsAndChannelSafe ==
  /\ [](/\ \A b \in BomIds :
             /\ refs[b] >= 0
             /\ Pending(b) # {} => ~chanClosed[b]
             /\ \A br \in Brokers : boms[br] = b => ~chanClosed[b]
        /\ \A p \in PomIds : pc[p] # "panicked")
  /\ [][\A b \in BomIds :
          /\ chanClosed[b] => chanClosed'[b]
          /\ \A p \in PomIds : UnrefStep(p, b) /\ refs'[b] = 0 => ~chanClosed[b]
          /\ \A p \in PomIds :
               pc[p] = "sb_ref" /\ pc'[p] # "sb_ref" /\ pomBroker'[p] = b => ~chanClosed'[b]]_vars

\* a managed partition has left a broker manager, whose refs went to zero and
\* whose newSubscriptions was closed, and has sent itself to another one
C18_Witness ==
  \E p \in PomIds, b, c \in BomIds :
    /\ b # c /\ refs[b] = 0 /\ chanClosed[b] /\ bpc[b] = "stopped"
    /\ ret[p] = "ok" /\ pomBroker[p] = c /\ p \in subscriptions[c]
    /\ refs[c] = 1 /\ ~chanClosed[c]

\* C19: an abort takes out of the registry the entry that maps to the
\* aborting broker manager and no other: an entry that maps to a replacement
\* under the same broker stays.
C19_AbortSparesReplacement ==
  [][\A b \in BomIds : bpc[b] = "commit" /\ bpc'[b] = "abort_subs" =>
       \A br \in Brokers : boms[br] # b => boms'[br] = boms[br]]_vars

\* the partition managers the registry holds
Registered == {p \in PomIds : pomKey[p] # NoKey /\ poms[pomKey[p]] = p}

\* C20: a partition manager whose ManagePartition call returned an error
\* holds no broker manager and is in no subscriptions, received or still being
\* sent; so, whenever nobody is inside selectBroker, refs of a broker manager
\* is the number of registered partition managers that hold it.
C20_DiscardedHoldsNothing ==
  /\ \A p \in PomIds : Returned(p) /\ ret[p] # "ok" =>
       /\ pomBroker[p] = NoBom
       /\ \A b \in BomIds : p \notin subscriptions[b] \cup Pending(b)
  /\ (\A p \in PomIds : ret[p] \notin {"running", "registering"} /\ ~InSelectBroker(p)) =>
       \A b \in BomIds : refs[b] = Cardinality(PointingAt(b) \cap Registered)

====
